---- MODULE Spec2Model ----
(***************************************************************************)
(* A model of bonito/training.py: checkpoint discovery and resumption      *)
(* (load_state), the epoch loop of Trainer.fit with the points at which a  *)
(* KeyboardInterrupt can be delivered, the adaptive clipper (ClipGrad),    *)
(* one optimisation step (train_one_step) and the validation pass          *)
(* (validate_one_epoch).                                                   *)
(*                                                                         *)
(* A checkpoint file is a record [kind, stem]; its name on disk is         *)
(* kind ++ "_" ++ stem ++ ".tar".  A stem is a sequence of one-character   *)
(* strings, so that parsing an epoch index out of a name (re.sub + int)    *)
(* and formatting an index into a name ('%s_%s.tar') are two different     *)
(* computations.  torch.save is taken to be atomic with respect to a       *)
(* signal: a file is either wholly written or not written.                 *)
(***************************************************************************)
EXTENDS Integers, Sequences, FiniteSets, TLC

VARIABLES
    disk,             \* the checkpoint files in the work directory
    restore_optim,    \* Trainer.restore_optim
    save_optim_every, \* Trainer.save_optim_every
    steps_per_epoch,  \* Trainer.steps_per_epoch
    chunks_per_epoch, \* Trainer.chunks_per_epoch
    batch_size,       \* Trainer.batch_size
    model_mode,       \* "train" or "eval": the mode model.train()/eval() set
    vleft,            \* batches the validation stream still holds in this pass
    pc,               \* the statement the call is about to execute
    epochs,           \* fit's epochs argument
    last_epoch,       \* fit's last_epoch
    epoch,            \* the loop variable of fit
    next_epoch,       \* the next value range(1 + last_epoch, epochs + 1) yields
    step,             \* batches of the current epoch already consumed
    events,           \* what the current epoch has done so far, in order
    cnt,              \* calls made by the current fit, and the rate last logged
    lr_scheduler,     \* the arguments the schedule was built with, and its steps
    model_loaded,     \* file last passed to model.load_state_dict
    optim_loaded,     \* file last passed to optimizer.load_state_dict
    optim_arg,        \* whether load_state was given an optimizer
    res,              \* how the last load_state call ended
    intAt,            \* the statement a KeyboardInterrupt arrived at
    run,              \* number of fit calls made so far
    first,            \* while the second fit runs: the epochs argument and
                      \* the outcome of the first
    clip_grad,        \* a ClipGrad object: buffer, i, quantile, factor
    clip_trace,       \* the norms a ClipGrad has observed and its last call
    ts,               \* one Trainer inside train_one_step
    vs                \* one validate_one_epoch call: its batches and result

vars == <<disk, restore_optim, save_optim_every, steps_per_epoch, pc, epochs,
          last_epoch, epoch, next_epoch, step, events, cnt, lr_scheduler,
          model_loaded, optim_loaded, optim_arg, res, intAt, run, first,
          chunks_per_epoch, batch_size, model_mode, vleft,
          clip_grad, clip_trace, ts, vs>>

\* ---------------------------------------------------------------- bounds
MaxStemLen == 1
MaxFiles == 3
MaxEpochs == 6
MaxSaveEvery == 2
MaxStepsPerEpoch == 2
MaxRuns == 2
MaxValidBatches == 2
MaxCalls == 4
MaxBuffer == 2
MaxNorm == 2
MaxSplit == 4
MaxBatch == 8
MaxStepCalls == 2
MaxScale == 4

\* ------------------------------------------------- file names and indices
Digits == {"0", "1", "2", "3", "4", "5", "6", "7", "8", "9"}

\* the characters the stems of an enumerated directory are built from:
\* three digits and one letter (neither "_" nor ".")
StemAlphabet == {"0", "3", "5", "b"}

DigitVal(c) ==
    CASE c = "0" -> 0 [] c = "1" -> 1 [] c = "2" -> 2 [] c = "3" -> 3
      [] c = "4" -> 4 [] c = "5" -> 5 [] c = "6" -> 6 [] c = "7" -> 7
      [] c = "8" -> 8 [] c = "9" -> 9

DigitChar(n) ==
    CASE n = 0 -> "0" [] n = 1 -> "1" [] n = 2 -> "2" [] n = 3 -> "3"
      [] n = 4 -> "4" [] n = 5 -> "5" [] n = 6 -> "6" [] n = 7 -> "7"
      [] n = 8 -> "8" [] n = 9 -> "9"

\* int("035") = 35
RECURSIVE StrToInt(_)
StrToInt(s) ==
    IF s = <<>> THEN 0
    ELSE 10 * StrToInt(SubSeq(s, 1, Len(s) - 1)) + DigitVal(s[Len(s)])

\* Python's None, and the value standing for an int() call that raised
None == -1
ValueError == -2

\* '%s' % 35 = "35", '%s' % None = "None"
RECURSIVE IntToStr(_)
IntToStr(n) ==
    IF n = None THEN <<"N", "o", "n", "e">>
    ELSE IF n < 10 THEN <<DigitChar(n)>>
    ELSE IntToStr(n \div 10) \o <<DigitChar(n % 10)>>

\* re.sub(".*_([0-9]+).tar", "\\1", path): the pattern matches the path
\* dirname/kind_stem.tar exactly when the stem (which holds no "_" and no
\* ".") is a non-empty run of digits, and the substitution then leaves the
\* stem alone; otherwise the path comes back unchanged.
ReMatches(f) ==
    /\ Len(f.stem) >= 1
    /\ \A i \in 1..Len(f.stem) : f.stem[i] \in Digits

\* int(re.sub(...)): the epoch index of a file name, or ValueError when the
\* substitution left a path that is not a number
FileNo(f) == IF ReMatches(f) THEN StrToInt(f.stem) ELSE ValueError

\* glob(os.path.join(dirname, kind + "_*.tar"))
glob(dirname, kind) == {f \in dirname : f.kind = kind}

\* max(s, default=None)
RECURSIVE SetMax(_)
SetMax(s) ==
    IF s = {} THEN None
    ELSE LET x == CHOOSE y \in s : TRUE
             m == SetMax(s \ {x})
         IN IF m = None \/ x > m THEN x ELSE m

\* truth value of an int-or-None in an if statement
Truthy(x) == x # None /\ x # 0

NoFile == [kind |-> "none", stem |-> <<>>]

\* os.path.join(dirname, '%s_%s.tar' % (name, weight_no))
CheckpointFile(name, no) == [kind |-> name, stem |-> IntToStr(no)]

\* lines 40-43 as if the optimizer index were chosen on its own
select_nos_separate(optim, optim_nos, weight_nos) ==
    IF optim
    THEN [weight_no |-> SetMax(weight_nos), optim_no |-> SetMax(optim_nos)]
    ELSE [weight_no |-> SetMax(weight_nos), optim_no |-> None]

\* lines 32, 40-43: the epoch indices to resume from
select_nos(optim, optim_nos, weight_nos) ==
    IF optim
    THEN [weight_no |-> SetMax(optim_nos \cap weight_nos),
          optim_no  |-> SetMax(optim_nos \cap weight_nos)]
    ELSE [weight_no |-> SetMax(weight_nos), optim_no |-> None]

\* load_state(dirname, device, model, optim): optim is TRUE when an
\* optimizer is passed.  The result says how the call ended (status), the
\* epoch returned, and the file whose contents model.load_state_dict and
\* optim.load_state_dict received (NoFile when not called).
load_state(dirname, optim) ==
    LET optim_files  == glob(dirname, "optim")
        weight_files == glob(dirname, "weights")
        raised(st, w) == [status |-> st, epoch |-> None,
                          weights |-> w, optim |-> NoFile]
    IN  IF \E f \in optim_files : FileNo(f) = ValueError
        THEN raised("ValueError", NoFile)
        ELSE IF \E f \in weight_files : FileNo(f) = ValueError
        THEN raised("ValueError", NoFile)
        ELSE
        LET optim_nos  == {FileNo(f) : f \in optim_files}
            weight_nos == {FileNo(f) : f \in weight_files}
            sel        == select_nos(optim, optim_nos, weight_nos)
            weight_no  == sel.weight_no
            optim_no   == sel.optim_no
            \* both files are named after weight_no (line 55)
            wfile == CheckpointFile("weights", weight_no)
            ofile == CheckpointFile("optim", weight_no)
        IN  IF Truthy(weight_no) /\ wfile \notin dirname
            THEN raised("FileNotFoundError", NoFile)
            ELSE IF Truthy(optim_no) /\ ofile \notin dirname
            THEN raised("FileNotFoundError",
                        IF Truthy(weight_no) THEN wfile ELSE NoFile)
            ELSE [status  |-> "returned",
                  epoch   |-> IF Truthy(weight_no) \/ Truthy(optim_no)
                              THEN weight_no ELSE 0,
                  weights |-> IF Truthy(weight_no) THEN wfile ELSE NoFile,
                  optim   |-> IF Truthy(optim_no) THEN ofile ELSE NoFile]

\* ------------------------------------------------------------ Trainer.fit
NoResult == [status |-> "none", epoch |-> None, weights |-> NoFile, optim |-> NoFile]
NoScheduler == [steps_per_epoch |-> 0, epochs |-> 0, last_epoch |-> 0, steps |-> 0]

\* statements of train_one_step (lines 121-158) and of the step loop of
\* train_one_epoch (lines 201-213)
StepPcs == {"zero_grad", "backward", "unscale", "clip", "optstep", "update",
            "log", "sched"}

\* a try block that ends before validate_one_epoch
TryBlockNoValidate == StepPcs \cup {"save_w", "save_o"}

\* the statements inside try ... except KeyboardInterrupt (lines 294-305)
TryBlock == StepPcs \cup {"save_w", "save_o", "validate", "val_batch"}

\* every statement of a running fit
FitPcs == StepPcs \cup {"save_w", "save_o", "validate", "val_batch", "loop",
                      "summary"}

\* a loop that starts one epoch late
range_first_late(le) == 2 + le

\* first value of range(1 + last_epoch, epochs + 1)
range_first(le) == 1 + le

\* a schedule always built from epoch 0
get_lr_scheduler_restart(e, le) ==
    [steps_per_epoch |-> steps_per_epoch, epochs |-> e, last_epoch |-> 0,
     steps |-> 0]

\* get_lr_scheduler(epochs, last_epoch): the schedule factory's arguments
get_lr_scheduler(e, le) ==
    [steps_per_epoch |-> steps_per_epoch, epochs |-> e, last_epoch |-> le,
     steps |-> 0]

Config == <<restore_optim, save_optim_every, steps_per_epoch, chunks_per_epoch,
            batch_size>>

\* the parts of a Trainer that fit and load_state are not followed through
Components == <<clip_grad, clip_trace, ts, vs>>

NoClipGrad == [buffer |-> <<>>, i |-> 0, quantile |-> <<1, 2>>, factor |-> 2]
NoClipTrace ==
    [observed |-> <<>>, calls |-> 0, max_norm |-> [num |-> 0, den |-> 1], ret |-> 0]
NoStep == [pc |-> "none"]
NoValidation == [pc |-> "none"]

ComponentsIdle ==
    /\ clip_grad = NoClipGrad
    /\ clip_trace = NoClipTrace
    /\ ts = NoStep
    /\ vs = NoValidation

\* the calls a fit has made so far, and the scheduler position its last log
\* entry recorded
NoCalls == [zero_grad |-> 0, clip |-> 0, optstep |-> 0, update |-> 0,
            log |-> 0, logged_lr |-> None]


\* line 117: self.steps_per_epoch = chunks_per_epoch // batch_size
steps_of(chunks, batch) == chunks \div batch

Init ==
    /\ disk = {}
    /\ restore_optim \in BOOLEAN
    /\ save_optim_every \in 1..MaxSaveEvery
    /\ batch_size \in {2}
    /\ chunks_per_epoch \in {1} \cup {2 * k + 1 : k \in 1..MaxStepsPerEpoch}
    /\ steps_per_epoch = steps_of(chunks_per_epoch, batch_size)
    /\ model_mode \in {"train", "eval"}
    /\ vleft = 0
    /\ ComponentsIdle
    /\ pc = "idle"
    /\ epochs = 0
    /\ last_epoch = 0
    /\ epoch = 0
    /\ next_epoch = 0
    /\ step = 0
    /\ events = <<>>
    /\ cnt = NoCalls
    /\ lr_scheduler = NoScheduler
    /\ model_loaded = NoFile
    /\ optim_loaded = NoFile
    /\ optim_arg = FALSE
    /\ res = NoResult
    /\ intAt = "none"
    /\ run = 0
    /\ first = [epochs |-> 0, outcome |-> "none"]

\* fit(workdir, epochs=e), lines 281-291: resume and build the schedule
FitCall(e) ==
    /\ pc = "idle"
    /\ run < MaxRuns
    /\ run' = run + 1
    /\ epochs' = e
    /\ optim_arg' = restore_optim
    /\ LET r == load_state(disk, restore_optim)
       IN /\ res' = r
          /\ model_loaded' = IF r.weights # NoFile THEN r.weights ELSE model_loaded
          /\ optim_loaded' = IF r.optim # NoFile THEN r.optim ELSE optim_loaded
          /\ IF r.status = "returned"
             THEN /\ last_epoch' = r.epoch
                  /\ lr_scheduler' = get_lr_scheduler(e, r.epoch)
                  /\ next_epoch' = range_first(r.epoch)
                  /\ pc' = "loop"
             ELSE /\ pc' = "raised"
                  /\ UNCHANGED <<last_epoch, lr_scheduler, next_epoch>>
    /\ epoch' = 0
    /\ step' = 0
    /\ events' = <<>>
    /\ cnt' = NoCalls
    /\ intAt' = "none"
    /\ UNCHANGED <<disk, Config, Components, model_mode, vleft, first>>

\* a train_one_epoch that leaves the model in the mode it finds it in
LoopHeadKeepsMode ==
    /\ pc = "loop"
    /\ IF next_epoch <= epochs
       THEN /\ epoch' = next_epoch
            /\ next_epoch' = next_epoch + 1
            /\ step' = 0
            /\ model_mode' = model_mode
            /\ IF steps_per_epoch > 0
               THEN pc' = "zero_grad" /\ events' = <<>>
               ELSE pc' = "save_w" /\ events' = <<"train">>
       ELSE /\ pc' = "returned"
            /\ UNCHANGED <<epoch, next_epoch, step, events, model_mode>>
    /\ UNCHANGED <<disk, Config, Components, epochs, last_epoch, cnt, lr_scheduler,
                   model_loaded, optim_loaded, optim_arg, res, intAt, run, first,
                   vleft>>

\* line 293: the for statement starts the next epoch or ends the loop;
\* lines 295-296, 163-177: the epoch's log is opened, train_one_epoch calls
\* model.train() and takes the first of its steps_per_epoch batches (with
\* no batch to take it returns at once)
LoopHead ==
    /\ pc = "loop"
    /\ IF next_epoch <= epochs
       THEN /\ epoch' = next_epoch
            /\ next_epoch' = next_epoch + 1
            /\ step' = 0
            /\ model_mode' = "train"
            /\ IF steps_per_epoch > 0
               THEN pc' = "zero_grad" /\ events' = <<>>
               ELSE pc' = "save_w" /\ events' = <<"train">>
       ELSE /\ pc' = "returned"
            /\ UNCHANGED <<epoch, next_epoch, step, events, model_mode>>
    /\ UNCHANGED <<disk, Config, Components, epochs, last_epoch, cnt, lr_scheduler,
                   model_loaded, optim_loaded, optim_arg, res, intAt, run, first,
                   vleft>>

StepFrame == <<disk, Config, Components, epochs, last_epoch, epoch,
               next_epoch, step, events, lr_scheduler, model_loaded,
               optim_loaded, optim_arg, res, intAt, run, first, model_mode,
               vleft>>

\* line 121: self.optimizer.zero_grad()
ZeroGrad ==
    /\ pc = "zero_grad"
    /\ cnt' = [cnt EXCEPT !.zero_grad = @ + 1]
    /\ pc' = "backward"
    /\ UNCHANGED StepFrame

\* lines 123-152: forward, loss and backward of the sub-batches
Backward ==
    /\ pc = "backward"
    /\ pc' = "unscale"
    /\ UNCHANGED <<cnt, StepFrame>>

\* lines 154-155: scaler.get_scale(), scaler.unscale_(optimizer)
Unscale ==
    /\ pc = "unscale"
    /\ pc' = "clip"
    /\ UNCHANGED <<cnt, StepFrame>>

\* line 156: self.clip_grad(self.model.parameters())
Clip ==
    /\ pc = "clip"
    /\ cnt' = [cnt EXCEPT !.clip = @ + 1]
    /\ pc' = "optstep"
    /\ UNCHANGED StepFrame

\* line 157: self.scaler.step(self.optimizer)
ScalerStep ==
    /\ pc = "optstep"
    /\ cnt' = [cnt EXCEPT !.optstep = @ + 1]
    /\ pc' = "update"
    /\ UNCHANGED StepFrame

\* a step that returns without calling scaler.update()
ScalerUpdateOmitted ==
    /\ pc = "update"
    /\ pc' = "log"
    /\ UNCHANGED <<cnt, StepFrame>>

\* line 158: self.scaler.update(); train_one_step returns
ScalerUpdate ==
    /\ pc = "update"
    /\ cnt' = [cnt EXCEPT !.update = @ + 1]
    /\ pc' = "log"
    /\ UNCHANGED StepFrame

\* lines 181-211: smoothed losses, progress bar, and loss_log.append of
\* an entry holding lr_scheduler.get_last_lr()
LogStep ==
    /\ pc = "log"
    /\ cnt' = [cnt EXCEPT !.log = @ + 1, !.logged_lr = lr_scheduler.steps]
    /\ pc' = "sched"
    /\ UNCHANGED StepFrame

\* a scheduler advanced once per epoch, after its last step
SchedStepPerEpoch ==
    /\ pc = "sched"
    /\ step' = step + 1
    /\ IF step + 1 = steps_per_epoch
       THEN /\ pc' = "save_w"
            /\ events' = Append(events, "train")
            /\ lr_scheduler' = [lr_scheduler EXCEPT !.steps = @ + 1]
       ELSE /\ pc' = "zero_grad"
            /\ events' = events
            /\ lr_scheduler' = lr_scheduler
    /\ UNCHANGED <<disk, Config, Components, epochs, last_epoch, epoch,
                   next_epoch, cnt, model_loaded, optim_loaded, optim_arg, res,
                   intAt, run, first, model_mode, vleft>>

\* line 213: lr_scheduler.step(); then the next batch, or the end of
\* train_one_epoch (lines 215-216) after steps_per_epoch batches
SchedStep ==
    /\ pc = "sched"
    /\ lr_scheduler' = [lr_scheduler EXCEPT !.steps = @ + 1]
    /\ step' = step + 1
    /\ IF step + 1 = steps_per_epoch
       THEN /\ pc' = "save_w"
            /\ events' = Append(events, "train")
       ELSE /\ pc' = "zero_grad"
            /\ events' = events
    /\ UNCHANGED <<disk, Config, Components, epochs, last_epoch, epoch,
                   next_epoch, cnt, model_loaded, optim_loaded, optim_arg, res,
                   intAt, run, first, model_mode, vleft>>

EpochFrame == <<Config, Components, epochs, last_epoch, epoch, next_epoch,
                step, cnt, lr_scheduler, model_loaded, optim_loaded, optim_arg,
                res, intAt, run, first>>

\* a save that names the file after the previous epoch
SaveWeightsPrevName ==
    /\ pc = "save_w"
    /\ disk' = disk \cup {CheckpointFile("weights", epoch - 1)}
    /\ events' = Append(events, "weights")
    /\ pc' = "save_o"
    /\ UNCHANGED <<EpochFrame, model_mode, vleft>>

\* lines 298-299: torch.save(model_state, "weights_%s.tar" % epoch)
SaveWeights ==
    /\ pc = "save_w"
    /\ disk' = disk \cup {CheckpointFile("weights", epoch)}
    /\ events' = Append(events, "weights")
    /\ pc' = "save_o"
    /\ UNCHANGED <<EpochFrame, model_mode, vleft>>

\* an optimizer save one epoch early
SaveOptimEarly ==
    /\ pc = "save_o"
    /\ IF (epoch + 1) % save_optim_every = 0
       THEN /\ disk' = disk \cup {CheckpointFile("optim", epoch)}
            /\ events' = Append(events, "optim")
       ELSE UNCHANGED <<disk, events>>
    /\ pc' = "validate"
    /\ UNCHANGED <<EpochFrame, model_mode, vleft>>

\* an optimizer save in every epoch
SaveOptimAlways ==
    /\ pc = "save_o"
    /\ disk' = disk \cup {CheckpointFile("optim", epoch)}
    /\ events' = Append(events, "optim")
    /\ pc' = "validate"
    /\ UNCHANGED <<EpochFrame, model_mode, vleft>>

\* lines 300-301: every save_optim_every-th epoch,
\* torch.save(optimizer.state_dict(), "optim_%s.tar" % epoch)
SaveOptim ==
    /\ pc = "save_o"
    /\ IF epoch % save_optim_every = 0
       THEN /\ disk' = disk \cup {CheckpointFile("optim", epoch)}
            /\ events' = Append(events, "optim")
       ELSE UNCHANGED <<disk, events>>
    /\ pc' = "validate"
    /\ UNCHANGED <<EpochFrame, model_mode, vleft>>

\* lines 303, 257-259: validate_one_epoch calls model.eval() and starts on
\* the validation stream, which holds some batches
Validate ==
    /\ pc = "validate"
    /\ model_mode' = "eval"
    /\ vleft' \in 1..MaxValidBatches
    /\ pc' = "val_batch"
    /\ UNCHANGED <<disk, events, EpochFrame>>

\* line 259: validate_one_step on the next batch; after the last batch
\* validate_one_epoch returns its statistics (lines 260-264)
ValidateStep ==
    /\ pc = "val_batch"
    /\ vleft' = vleft - 1
    /\ IF vleft = 1
       THEN events' = Append(events, "validate") /\ pc' = "summary"
       ELSE events' = events /\ pc' = "val_batch"
    /\ UNCHANGED <<disk, EpochFrame, model_mode>>

\* lines 307-328: print and training_log.append
Summary ==
    /\ pc = "summary"
    /\ events' = Append(events, "summary")
    /\ pc' = "loop"
    /\ UNCHANGED <<disk, EpochFrame, model_mode, vleft>>

\* a KeyboardInterrupt arrives before the statement at pc has taken effect:
\* inside the try block it is caught and the loop is left (lines 304-305),
\* so fit returns; anywhere else it propagates out of fit
Interrupt ==
    /\ pc \in FitPcs
    /\ intAt' = pc
    /\ pc' = IF pc \in TryBlock THEN "returned" ELSE "raised"
    /\ UNCHANGED <<disk, Config, Components, epochs, last_epoch, epoch, next_epoch, step,
                   events, cnt, lr_scheduler, model_loaded, optim_loaded,
                   optim_arg, res, run, first, model_mode, vleft>>

\* fit has returned or raised and its caller goes on: the locals of the call
\* are gone, the work directory and the Trainer stay
FitExit ==
    /\ pc \in {"returned", "raised"}
    /\ run < MaxRuns
    /\ pc' = "idle"
    /\ first' = IF run = 1
                THEN [epochs  |-> epochs,
                      outcome |-> IF pc = "raised" THEN "raised"
                                  ELSE IF intAt # "none" THEN "interrupted"
                                  ELSE "completed"]
                ELSE [epochs |-> 0, outcome |-> "none"]
    /\ epochs' = 0
    /\ last_epoch' = 0
    /\ epoch' = 0
    /\ next_epoch' = 0
    /\ step' = 0
    /\ events' = <<>>
    /\ cnt' = NoCalls
    /\ lr_scheduler' = NoScheduler
    /\ res' = NoResult
    /\ intAt' = "none"
    /\ UNCHANGED <<disk, Config, Components, model_loaded, optim_loaded,
                   optim_arg, run, model_mode, vleft>>

Next ==
    \/ \E e \in 1..MaxEpochs : FitCall(e)
    \/ FitExit
    \/ LoopHead
    \/ ZeroGrad
    \/ Backward
    \/ Unscale
    \/ Clip
    \/ ScalerStep
    \/ ScalerUpdate
    \/ LogStep
    \/ SchedStep
    \/ SaveWeights
    \/ SaveOptim
    \/ Validate
    \/ ValidateStep
    \/ Summary
    \/ Interrupt

Spec == Init /\ [][Next]_vars

\* --------------------------------------------- load_state on a directory
Stems == UNION {[1..n -> StemAlphabet] : n \in 1..MaxStemLen}

FileNames == [kind : {"weights", "optim"}, stem : Stems]

RECURSIVE DirsUpTo(_)
DirsUpTo(n) ==
    IF n = 0 THEN {{}}
    ELSE LET smaller == DirsUpTo(n - 1)
         IN smaller \cup {d \cup {f} : d \in smaller, f \in FileNames}

InitLoad ==
    /\ disk \in DirsUpTo(MaxFiles)
    /\ restore_optim = FALSE
    /\ save_optim_every = 1
    /\ steps_per_epoch = 1
    /\ chunks_per_epoch = 1
    /\ batch_size = 1
    /\ model_mode = "train"
    /\ vleft = 0
    /\ ComponentsIdle
    /\ pc = "load_state"
    /\ epochs = 0
    /\ last_epoch = 0
    /\ epoch = 0
    /\ next_epoch = 0
    /\ step = 0
    /\ events = <<>>
    /\ cnt = NoCalls
    /\ lr_scheduler = NoScheduler
    /\ model_loaded = NoFile
    /\ optim_loaded = NoFile
    /\ optim_arg = FALSE
    /\ res = NoResult
    /\ intAt = "none"
    /\ run = 0
    /\ first = [epochs |-> 0, outcome |-> "none"]

\* load_state(dirname, device, model, optim), optim None or an optimizer
LoadStateCall(optim) ==
    /\ pc = "load_state"
    /\ optim_arg' = optim
    /\ LET r == load_state(disk, optim)
       IN /\ res' = r
          /\ model_loaded' = IF r.weights # NoFile THEN r.weights ELSE model_loaded
          /\ optim_loaded' = IF r.optim # NoFile THEN r.optim ELSE optim_loaded
    /\ pc' = "load_done"
    /\ UNCHANGED <<disk, Config, Components, epochs, last_epoch, epoch, next_epoch, step,
                   events, cnt, lr_scheduler, intAt, run, first, model_mode,
                   vleft>>

NextLoad == \E optim \in BOOLEAN : LoadStateCall(optim)

SpecLoad == InitLoad /\ [][NextLoad]_vars

\* ------------------------------------------------- properties: load_state
\* the epoch indices carried by the files of one kind
Indices(d, kind) == {StrToInt(f.stem) : f \in {g \in glob(d, kind) : ReMatches(g)}}

\* the candidate epochs of a call
Qualifying(d, optim) ==
    IF optim THEN Indices(d, "weights") \cap Indices(d, "optim")
    ELSE Indices(d, "weights")

\* C1: on a directory all of whose files carry an epoch index, load_state
\* returns the greatest index of W \cap O when an optimizer is supplied and
\* loads both artifacts of that epoch; without an optimizer it returns the
\* greatest index of W and loads only that weights artifact.
C1_ResumeEpoch ==
    (/\ pc = "load_done"
     /\ \A f \in disk : ReMatches(f)
     /\ Qualifying(disk, optim_arg) # {})
    => LET n == SetMax(Qualifying(disk, optim_arg))
       IN /\ res.status = "returned"
          /\ res.epoch = n
          /\ model_loaded = [kind |-> "weights", stem |-> IntToStr(n)]
          /\ optim_loaded = IF optim_arg
                            THEN [kind |-> "optim", stem |-> IntToStr(n)]
                            ELSE NoFile

\* C2: when no epoch index qualifies, load_state returns 0 and calls
\* load_state_dict on neither the model nor the optimizer.
C2_ColdStart ==
    (pc = "load_done" /\ Qualifying(disk, optim_arg) = {})
    => /\ res.status = "returned"
       /\ res.epoch = 0
       /\ model_loaded = NoFile
       /\ optim_loaded = NoFile

\* C3: files whose names carry no epoch index make no difference: the call
\* ends as it would on the directory without them, and no error is raised
\* because of them.
C3_MalformedIgnored ==
    pc = "load_done"
    => LET clean == {f \in disk : ReMatches(f)}
       IN clean # disk => res = load_state(clean, optim_arg)

\* C4: a call never passes an optimizer artifact to the optimizer without
\* passing the weights artifact of the same epoch to the model, and an
\* optimizer artifact whose epoch has no weights artifact changes nothing:
\* the call ends exactly as it would without that file.
C4_OptimOnlyWithWeights ==
    pc = "load_done"
    => /\ optim_loaded # NoFile
          => /\ model_loaded # NoFile
             /\ model_loaded.stem = optim_loaded.stem
       /\ \A f \in glob(disk, "optim") :
             (ReMatches(f) /\ StrToInt(f.stem) \notin Indices(disk, "weights"))
             => res = load_state(disk \ {f}, optim_arg)

\* C4 witness: an optimizer was supplied, the directory holds an optimizer
\* artifact without weights next to a complete pair, and the pair was loaded
C4_Witness ==
    /\ pc = "load_done"
    /\ optim_arg
    /\ \E f \in glob(disk, "optim") :
          ReMatches(f) /\ StrToInt(f.stem) \notin Indices(disk, "weights")
    /\ res.status = "returned"
    /\ optim_loaded # NoFile
    /\ model_loaded.stem = optim_loaded.stem

\* -------------------------------------------------------- properties: fit
WeightsOnDisk(e) == [kind |-> "weights", stem |-> IntToStr(e)] \in disk
OptimOnDisk(e) == [kind |-> "optim", stem |-> IntToStr(e)] \in disk

\* the second fit runs after a first fit that went through all its epochs
SecondAfterCompleted == run = 2 /\ first.outcome = "completed"

\* C5: after a first fit of E epochs in an empty directory and a second,
\* uninterrupted fit of 2E epochs, weights_1 .. weights_2E are all on disk.
C5_NoGaps ==
    (/\ SecondAfterCompleted
     /\ epochs = 2 * first.epochs
     /\ pc = "returned"
     /\ intAt = "none")
    => \A i \in 1..epochs : WeightsOnDisk(i)

\* C5 witness: a second fit of 6 epochs has returned after a first of 3,
\* having resumed weights and optimizer state from epoch 2
C5_Witness ==
    /\ SecondAfterCompleted
    /\ first.epochs = 3
    /\ epochs = 6
    /\ pc = "returned"
    /\ intAt = "none"
    /\ restore_optim
    /\ last_epoch = 2
    /\ optim_loaded = [kind |-> "optim", stem |-> <<"2">>]

\* C6 as stated: the second fit builds its schedule with epoch offset E and
\* trains epoch E + 1 first, whatever the configuration.
C6_OffsetIsE ==
    SecondAfterCompleted /\ res.status = "returned"
    => /\ lr_scheduler.last_epoch = first.epochs
       /\ (pc = "zero_grad" /\ cnt.zero_grad = 0) => epoch = first.epochs + 1

\* the epoch the second fit resumes from after a first fit of E epochs
ResumePoint(E) ==
    IF restore_optim THEN (E \div save_optim_every) * save_optim_every ELSE E

\* C6 amended: the second fit builds its schedule with epoch offset L and
\* trains epoch L + 1 first, where L = E without restore_optim and L = the
\* greatest multiple of save_optim_every not above E (0 if none) with it.
C6_OffsetIsResumePoint ==
    SecondAfterCompleted /\ res.status = "returned"
    => /\ lr_scheduler.last_epoch = ResumePoint(first.epochs)
       /\ lr_scheduler.epochs = epochs
       /\ (pc = "zero_grad" /\ cnt.zero_grad = 0)
          => epoch = ResumePoint(first.epochs) + 1

\* C6 witness: with restore_optim and save_optim_every = 2, the second fit
\* after 3 epochs starts its first step in epoch 3, on a schedule offset 2
C6_Witness ==
    /\ SecondAfterCompleted
    /\ restore_optim
    /\ save_optim_every = 2
    /\ first.epochs = 3
    /\ pc = "zero_grad"
    /\ cnt.zero_grad = 0
    /\ epoch = 3
    /\ lr_scheduler.last_epoch = 2

EpochEvents(e) ==
    IF e % save_optim_every = 0
    THEN <<"train", "weights", "optim", "validate", "summary">>
    ELSE <<"train", "weights", "validate", "summary">>

IsPrefix(s, t) == Len(s) <= Len(t) /\ s = SubSeq(t, 1, Len(s))

InSeq(x, s) == \E i \in 1..Len(s) : s[i] = x

\* C7: an epoch trains, saves weights_e, saves optim_e exactly when e is a
\* multiple of save_optim_every, validates and appends its summary, in that
\* order; an epoch that reaches the end of its iteration has done all of it.
C7_EpochOrder ==
    epoch >= 1
    => /\ IsPrefix(events, EpochEvents(epoch))
       /\ pc = "loop" => events = EpochEvents(epoch)
       /\ InSeq("weights", events) => WeightsOnDisk(epoch)
       /\ InSeq("optim", events) => OptimOnDisk(epoch)
       /\ InSeq("validate", events)
          => /\ InSeq("weights", events)
             /\ InSeq("optim", events) <=> epoch % save_optim_every = 0

\* C7 witness: epoch 2 has finished with an optimizer save, where epoch 1
\* had none
C7_Witness ==
    /\ pc = "loop"
    /\ epoch = 2
    /\ save_optim_every = 2
    /\ events = <<"train", "weights", "optim", "validate", "summary">>
    /\ ~OptimOnDisk(1)

\* the statements between a step's zero_grad and the end of its update
MidStep == {"backward", "unscale", "clip", "optstep", "update"}

IterationPcs == {"zero_grad", "backward", "unscale", "clip", "optstep",
                 "update", "log", "sched", "save_w", "save_o", "validate",
                 "val_batch", "summary"}

NaN == -3
Inf == -4
\* fill_value of np.full
Sentinel == 1000000

isnan(x) == x = NaN
isfinite(x) == x # NaN /\ x # Inf

\* the norms clip_grad_norm_ is made to report
Norms == 0..MaxNorm \cup {Inf, NaN}

\* the fit variables while no fit is running
FitIdle ==
    /\ disk = {}
    /\ restore_optim = FALSE
    /\ save_optim_every = 1
    /\ steps_per_epoch = 1
    /\ chunks_per_epoch = 1
    /\ batch_size = 1
    /\ model_mode = "train"
    /\ vleft = 0
    /\ epochs = 0
    /\ last_epoch = 0
    /\ epoch = 0
    /\ next_epoch = 0
    /\ step = 0
    /\ events = <<>>
    /\ cnt = NoCalls
    /\ lr_scheduler = NoScheduler
    /\ model_loaded = NoFile
    /\ optim_loaded = NoFile
    /\ optim_arg = FALSE
    /\ res = NoResult
    /\ intAt = "none"
    /\ run = 0
    /\ first = [epochs |-> 0, outcome |-> "none"]

FitFrame ==
    <<disk, Config, model_mode, vleft, epochs, last_epoch, epoch, next_epoch,
      step, events, cnt, lr_scheduler, model_loaded, optim_loaded, optim_arg,
      res, intAt, run, first>>

\* ClipGrad.__init__(quantile, factor, buffer_size); quantile is the fraction
\* q[1] / q[2]
ClipGrad(q, factor, buffer_size) ==
    [buffer   |-> [j \in 1..buffer_size |-> Sentinel],
     i        |-> 0,
     quantile |-> q,
     factor   |-> factor]

append_no_advance(c, grad_norm) ==
    [c EXCEPT !.buffer[c.i + 1] = grad_norm]

\* ClipGrad.append; buffer[0] of the code is buffer[1] here
append(c, grad_norm) ==
    [c EXCEPT !.buffer[c.i + 1] = grad_norm,
              !.i = (c.i + 1) % Len(c.buffer)]

observe_all(c, grad_norm) == append(c, grad_norm)

\* if not math.isnan(grad_norm): self.append(grad_norm)
observe(c, grad_norm) ==
    IF ~isnan(grad_norm) THEN append(c, grad_norm) ELSE c

\* the order of floats in a sort: numbers, then inf, then nan
float_less(x, y) ==
    IF isnan(x) THEN FALSE
    ELSE IF isnan(y) THEN TRUE
    ELSE IF x = Inf THEN FALSE
    ELSE IF y = Inf THEN TRUE
    ELSE x < y

\* np.quantile(buffer, q), linear interpolation between the two order
\* statistics around the position (n - 1) * q.  The result is the fraction
\* num / den.  numpy interpolates as a + (b - a) * t: with an infinite a or b
\* the result is inf or nan, depending on the numpy build, so every outcome
\* is in the set.
np_quantile(buffer, q) ==
    LET a  == SortSeq(buffer, float_less)
        n  == Len(a)
        h  == (n - 1) * q[1]
        lo == h \div q[2]
        r  == h % q[2]
        x  == a[lo + 1]
        y  == a[IF lo + 2 <= n THEN lo + 2 ELSE n]
    IN IF \E j \in 1..n : isnan(a[j])
       THEN {[num |-> NaN, den |-> 1]}
       ELSE IF isfinite(x) /\ isfinite(y)
       THEN {[num |-> x * (q[2] - r) + y * r, den |-> q[2]]}
       ELSE {[num |-> Inf, den |-> 1], [num |-> NaN, den |-> 1]}
            \cup (IF r = 0 /\ isfinite(x) THEN {[num |-> x * q[2], den |-> q[2]]}
                  ELSE {})

\* self.factor * np.quantile(self.buffer, self.quantile)
max_norm_of(c) ==
    {[num |-> IF isfinite(m.num) THEN c.factor * m.num ELSE m.num,
      den |-> m.den] : m \in np_quantile(c.buffer, c.quantile)}

Quantiles == {<<1, 2>>, <<3, 4>>}
Factors == {2, 3}

InitClip ==
    /\ FitIdle
    /\ pc = "clip_grad"
    /\ clip_grad \in {ClipGrad(q, f, n) :
                        q \in Quantiles, f \in Factors, n \in 1..MaxBuffer}
    /\ clip_trace = NoClipTrace
    /\ ts = NoStep
    /\ vs = NoValidation

ClipCallThresholdAfter(grad_norm) ==
    /\ pc = "clip_grad"
    /\ clip_trace.calls < MaxCalls
    /\ clip_grad' = observe(clip_grad, grad_norm)
    /\ \E max_norm \in max_norm_of(clip_grad') :
         clip_trace' = [observed |-> Append(clip_trace.observed, grad_norm),
                        calls    |-> clip_trace.calls + 1,
                        max_norm |-> max_norm,
                        ret      |-> grad_norm]
    /\ UNCHANGED <<FitFrame, pc, ts, vs>>

\* ClipGrad.__call__ on gradients of norm grad_norm: clip_grad_norm_ is
\* called with max_norm and returns the norm the gradients had
ClipCall(grad_norm) ==
    /\ pc = "clip_grad"
    /\ clip_trace.calls < MaxCalls
    /\ \E max_norm \in max_norm_of(clip_grad) :
         clip_trace' = [observed |-> Append(clip_trace.observed, grad_norm),
                        calls    |-> clip_trace.calls + 1,
                        max_norm |-> max_norm,
                        ret      |-> grad_norm]
    /\ clip_grad' = observe(clip_grad, grad_norm)
    /\ UNCHANGED <<FitFrame, pc, ts, vs>>

NextClip == \E grad_norm \in Norms : ClipCall(grad_norm)

SpecClip == InitClip /\ [][NextClip]_vars

\* ---------------------------------------------------------------------------
\* Claims about ClipGrad
\* ---------------------------------------------------------------------------

\* the norm the call that has just returned observed
LastObserved == clip_trace.observed[Len(clip_trace.observed)]

\* C11: a call that observes a NaN norm still calls clip_grad_norm_, with the
\* threshold of the buffer as it was, leaves every buffer slot as it was and
\* does not advance the write index.
C11_NaNLeavesBuffer ==
    [][(clip_trace'.calls = clip_trace.calls + 1
          /\ isnan(clip_trace'.observed[Len(clip_trace'.observed)]))
       => /\ clip_grad'.buffer = clip_grad.buffer
          /\ clip_grad'.i = clip_grad.i
          /\ clip_trace'.max_norm \in max_norm_of(clip_grad)]_vars

\* a NaN norm observed after a number was written to a buffer of two slots
C11_Witness ==
    /\ clip_trace.calls = 2
    /\ isnan(LastObserved)
    /\ Len(clip_grad.buffer) = 2
    /\ clip_grad.i = 1
    /\ clip_grad.buffer[1] = 1
    /\ clip_grad.buffer[2] = Sentinel

\* C12: after any sequence of calls every slot of the buffer holds a finite
\* number (a norm or the sentinel): no NaN and no infinite norm is ever
\* written, while each such call still calls clip_grad_norm_.
C12_OnlyFiniteInBuffer ==
    /\ \A j \in 1..Len(clip_grad.buffer) : isfinite(clip_grad.buffer[j])
    /\ clip_trace.calls = Len(clip_trace.observed)

\* the number of slots of b holding a number below x, and at most x
Below(b, x) == Cardinality({j \in 1..Len(b) : b[j] < x})
AtMost(b, x) == Cardinality({j \in 1..Len(b) : b[j] <= x})

\* the order statistic of rank k (from 0) of a buffer of numbers
OrderStat(b, k) ==
    CHOOSE x \in {b[j] : j \in 1..Len(b)} : Below(b, x) <= k /\ k < AtMost(b, x)

AllFinite(b) == \A j \in 1..Len(b) : isfinite(b[j])

\* den times the quantile of level num / den of a buffer of numbers, by linear
\* interpolation between the order statistics around rank (n - 1) * num / den
QuantileTimesDen(b, num, den) ==
    LET n  == Len(b)
        lo == ((n - 1) * num) \div den
        r  == ((n - 1) * num) % den
        hi == IF lo + 1 <= n - 1 THEN lo + 1 ELSE n - 1
    IN OrderStat(b, lo) * (den - r) + OrderStat(b, hi) * r

\* C13: on every call the threshold handed to clip_grad_norm_ is factor times
\* the quantile of the buffer as it was before this call's norm is written;
\* with quantile 0.5 and factor 2 a buffer holding v in every slot gives 2v
\* and a fresh buffer gives 2e6; the call returns the norm the gradients had
\* before clipping.
C13_ThresholdFromOldBuffer ==
    [][clip_trace'.calls = clip_trace.calls + 1
       => LET b == clip_grad.buffer
              q == clip_grad.quantile
              m == clip_trace'.max_norm
          IN /\ AllFinite(b)
                  => /\ isfinite(m.num)
                     /\ m.num * q[2]
                          = clip_grad.factor * QuantileTimesDen(b, q[1], q[2]) * m.den
             /\ (q = <<1, 2>> /\ clip_grad.factor = 2 /\ AllFinite(b)
                   /\ \A j \in 1..Len(b) : b[j] = b[1])
                  => m.num = 2 * b[1] * m.den
             /\ (q = <<1, 2>> /\ clip_grad.factor = 2 /\ clip_trace.calls = 0)
                  => m.num = 2000000 * m.den
             /\ clip_trace'.ret = clip_trace'.observed[Len(clip_trace'.observed)]]_vars

\* the third call on a buffer of two slots that both hold the norm 1, with
\* quantile 0.5 and factor 2: the threshold is 2 although this call writes 2
C13_Witness ==
    /\ clip_grad.quantile = <<1, 2>>
    /\ clip_grad.factor = 2
    /\ clip_trace.observed = <<1, 1, 2>>
    /\ clip_grad.buffer = <<2, 1>>
    /\ clip_trace.max_norm.num = 2 * clip_trace.max_norm.den
    /\ clip_trace.ret = 2

\* the norms that were appended, in order: the observed norms that are not NaN
Appended == SelectSeq(clip_trace.observed, LAMBDA g : ~isnan(g))

\* the appends that wrote slot j (slots from 0)
WritersOf(j) ==
    {k \in 1..Len(Appended) : (k - 1) % Len(clip_grad.buffer) = j}

\* C20: after calls of which n observed a norm that is not NaN, the write
\* index is n mod capacity, each slot holds the latest norm appended to it,
\* which makes the buffer the most recent min(n, capacity) appended norms, and
\* the slots never written hold the sentinel; the append number k overwrites
\* the norm of append k - capacity, the oldest in the buffer.
C20_RingBuffer ==
    pc = "clip_grad"
    => /\ clip_grad.i = Len(Appended) % Len(clip_grad.buffer)
       /\ \A j \in 0..(Len(clip_grad.buffer) - 1) :
            clip_grad.buffer[j + 1] =
               IF WritersOf(j) = {} THEN Sentinel
               ELSE Appended[CHOOSE k \in WritersOf(j) :
                               \A l \in WritersOf(j) : l <= k]

\* three appends and a NaN on a buffer of two slots: the third append has
\* overwritten the first
C20_Witness ==
    /\ clip_trace.observed = <<1, NaN, 2, 0>>
    /\ clip_grad.buffer = <<0, 2>>
    /\ clip_grad.i = 1

\* ---------------------------------------------------------------------------
\* Trainer.train_one_step on its own: a Trainer with grad_accum_split S and a
\* criterion with the loss keys `keys` is given batches of every size.  The
\* GradScaler is enabled; a loss value is the fraction num / den.
\* ---------------------------------------------------------------------------

\* the values criterion reports for one key of one sub-batch
LossValues == {1, 3}
\* the keys of the dict criterion returns; a bare loss becomes {'loss': loss}
LossKeys == {{"loss"}, {"loss", "total_loss"}}
\* the norms self.clip_grad reports in a step
StepNorms == {1, NaN}

\* losses = None
NoLosses == <<>>
NoReturn == [losses |-> NoLosses, grad_norm |-> 0, scale |-> 0]

\* t.chunk(S, dim=0) on B rows: the sizes of the chunks, each of ceil(B / S)
\* rows but the last, which takes the rest
chunk(B, S) ==
    LET c == (B + S - 1) \div S
        n == (B + c - 1) \div c
    IN [j \in 1..n |-> IF j < n THEN c ELSE B - c * (n - 1)]

accumulate_last(losses, losses_, S) ==
    [k \in DOMAIN losses_ |-> [num |-> losses_[k], den |-> S]]

\* the dict comprehension of lines 149-152: v / S for the first sub-batch,
\* v / S + losses[k] after it
accumulate(losses, losses_, S) ==
    [k \in DOMAIN losses_ |->
        IF losses = NoLosses THEN [num |-> losses_[k], den |-> S]
        ELSE [num |-> losses_[k] + losses[k].num, den |-> S]]

\* losses_.get('total_loss', losses_['loss']) / self.grad_accum_split
total_loss_of(losses_, S) ==
    [num |-> IF "total_loss" \in DOMAIN losses_ THEN losses_["total_loss"]
             ELSE losses_["loss"],
     den |-> S]

\* GradScaler.update(): the scale stays, grows or backs off by the factor 2
scale_updates(scale) ==
    {scale} \cup (IF 2 * scale <= MaxScale THEN {2 * scale} ELSE {})
            \cup (IF scale >= 2 THEN {scale \div 2} ELSE {})

StepFrameTS == <<FitFrame, clip_grad, clip_trace, vs>>

InitStep ==
    /\ FitIdle
    /\ pc = "ts_idle"
    /\ clip_grad = NoClipGrad
    /\ clip_trace = NoClipTrace
    /\ vs = NoValidation
    /\ \E S \in 1..MaxSplit, keys \in LossKeys :
         ts = [pc |-> "none", n |-> 0, S |-> S, keys |-> keys, B |-> 0,
               sizes |-> <<>>, sub |-> <<>>, losses |-> NoLosses,
               backward |-> <<>>, scale |-> 2, scale0 |-> 2, scale_read |-> 0,
               grad_norm |-> 0, trace |-> <<>>, ret |-> NoReturn]

\* train_one_step(batch) is entered with a batch of B rows:
\* self.optimizer.zero_grad(), losses = None, the batch is chunked
TrainStepCall(B) ==
    /\ pc \in {"ts_idle", "ts_done"}
    /\ ts.n < MaxStepCalls
    /\ ts' = [ts EXCEPT !.n = @ + 1, !.B = B, !.sizes = chunk(B, ts.S),
                        !.sub = <<>>, !.losses = NoLosses, !.backward = <<>>,
                        !.scale0 = ts.scale, !.scale_read = 0,
                        !.grad_norm = 0, !.trace = <<"zero_grad">>,
                        !.ret = NoReturn]
    /\ pc' = "ts_sub"
    /\ UNCHANGED StepFrameTS

\* one pass of the loop over the chunks: forward, criterion, backward of the
\* scaled total loss, accumulation of the losses
SubBatch(losses_) ==
    /\ pc = "ts_sub"
    /\ ts' = [ts EXCEPT !.sub = Append(@, losses_),
                        !.backward = Append(@, total_loss_of(losses_, ts.S)),
                        !.losses = accumulate(ts.losses, losses_, ts.S),
                        !.trace = Append(@, "backward")]
    /\ pc' = IF Len(ts.sub) + 1 = Len(ts.sizes) THEN "ts_get_scale" ELSE "ts_sub"
    /\ UNCHANGED StepFrameTS

\* scale = self.scaler.get_scale()
GetScale ==
    /\ pc = "ts_get_scale"
    /\ ts' = [ts EXCEPT !.scale_read = ts.scale, !.trace = Append(@, "get_scale")]
    /\ pc' = "ts_unscale"
    /\ UNCHANGED StepFrameTS

\* self.scaler.unscale_(self.optimizer)
UnscaleGrads ==
    /\ pc = "ts_unscale"
    /\ ts' = [ts EXCEPT !.trace = Append(@, "unscale_")]
    /\ pc' = "ts_clip"
    /\ UNCHANGED StepFrameTS

\* grad_norm = self.clip_grad(self.model.parameters())
ClipGrads(grad_norm) ==
    /\ pc = "ts_clip"
    /\ ts' = [ts EXCEPT !.grad_norm = grad_norm, !.trace = Append(@, "clip_grad")]
    /\ pc' = "ts_step"
    /\ UNCHANGED StepFrameTS

\* self.scaler.step(self.optimizer)
OptimizerStep ==
    /\ pc = "ts_step"
    /\ ts' = [ts EXCEPT !.trace = Append(@, "step")]
    /\ pc' = "ts_update"
    /\ UNCHANGED StepFrameTS

\* self.scaler.update()
ScaleUpdate ==
    /\ pc = "ts_update"
    /\ \E scale \in scale_updates(ts.scale) :
         ts' = [ts EXCEPT !.scale = scale, !.trace = Append(@, "update")]
    /\ pc' = "ts_return"
    /\ UNCHANGED StepFrameTS

ReturnStepNewScale ==
    /\ pc = "ts_return"
    /\ ts' = [ts EXCEPT !.ret = [losses |-> ts.losses, grad_norm |-> ts.grad_norm,
                                 scale |-> ts.scale]]
    /\ pc' = "ts_done"
    /\ UNCHANGED StepFrameTS

\* return losses, grad_norm, scale
ReturnStep ==
    /\ pc = "ts_return"
    /\ ts' = [ts EXCEPT !.ret = [losses |-> ts.losses, grad_norm |-> ts.grad_norm,
                                 scale |-> ts.scale_read]]
    /\ pc' = "ts_done"
    /\ UNCHANGED StepFrameTS

NextStep ==
    \/ \E B \in 1..MaxBatch : TrainStepCall(B)
    \/ \E losses_ \in UNION {[keys -> LossValues] : keys \in LossKeys} :
         DOMAIN losses_ = ts.keys /\ SubBatch(losses_)
    \/ GetScale
    \/ UnscaleGrads
    \/ \E grad_norm \in StepNorms : ClipGrads(grad_norm)
    \/ OptimizerStep
    \/ ScaleUpdate
    \/ ReturnStep

SpecStep == InitStep /\ [][NextStep]_vars

\* ---------------------------------------------------------------------------
\* Claims about train_one_step
\* ---------------------------------------------------------------------------

RECURSIVE SumKey(_, _)
\* the sum of the values of key k over the sub-batch losses in s
SumKey(s, k) ==
    IF s = <<>> THEN 0 ELSE s[1][k] + SumKey(Tail(s), k)

\* C14: when the batch size B is a multiple of grad_accum_split S, a step
\* processes exactly S sub-batches of B / S rows each, and for every loss key
\* the value returned is the mean of the S sub-batch values of that key.
C14_SubBatchesAndMean ==
    (pc = "ts_done" /\ ts.B % ts.S = 0)
    => /\ Len(ts.sub) = ts.S
       /\ Len(ts.sizes) = ts.S
       /\ \A j \in 1..Len(ts.sizes) : ts.sizes[j] * ts.S = ts.B
       /\ DOMAIN ts.ret.losses = ts.keys
       /\ \A k \in ts.keys :
            ts.ret.losses[k].num * ts.S = SumKey(ts.sub, k) * ts.ret.losses[k].den

\* grad_accum_split 4 and a batch of 8 rows: four sub-batches of 2 rows with
\* the losses 1, 3, 3, 3, whose mean 10 / 4 is returned
C14_Witness ==
    /\ pc = "ts_done"
    /\ ts.S = 4
    /\ ts.B = 8
    /\ ts.sizes = <<2, 2, 2, 2>>
    /\ ts.keys = {"loss"}
    /\ Len(ts.sub) = 4
    /\ SumKey(ts.sub, "loss") = 10
    /\ ts.sub[1]["loss"] = 1
    /\ ts.ret.losses["loss"] = [num |-> 10, den |-> 4]

\* the calls of a whole step on n sub-batches, in the order of the claim
StepOrder(n) ==
    <<"zero_grad">> \o [j \in 1..n |-> "backward"]
       \o <<"get_scale", "unscale_", "clip_grad", "step", "update">>

\* C16: a step clears the gradients, backpropagates every sub-batch, unscales,
\* clips, updates through the scaler and updates the scale factor, each once
\* and in this order; the scale it returns is the scale factor the step ran
\* with, read before the update, not the one the update leaves.
C16_StepOrderAndScale ==
    /\ pc \in {"ts_sub", "ts_get_scale", "ts_unscale", "ts_clip", "ts_step",
               "ts_update", "ts_return", "ts_done"}
         => IsPrefix(ts.trace, StepOrder(Len(ts.sizes)))
    /\ pc = "ts_done"
         => /\ ts.trace = StepOrder(Len(ts.sizes))
            /\ Len(ts.backward) = Len(ts.sizes)
            /\ ts.ret.scale = ts.scale0

\* a second step on two sub-batches whose update halved the scale factor from
\* 4 to 2: the step returns 4
C16_Witness ==
    /\ pc = "ts_done"
    /\ ts.n = 2
    /\ Len(ts.sizes) = 2
    /\ ts.scale0 = 4
    /\ ts.scale = 2
    /\ ts.ret.scale = 4

\* ---------------------------------------------------------------------------
\* Trainer.validate_one_epoch on its own: a Trainer in supervised or
\* pre-training mode validates on loaders of 1..MaxValidBatches batches.  A
\* statistic is the fraction num / den.
\* ---------------------------------------------------------------------------

\* the per-example accuracies accuracy() reports, in percent
AccValues == {0, 100}
\* the numbers of examples of a validation batch
ValidSizes == {3, 5}
\* the losses validate_one_step reports for a batch
ValidLosses == {1, 3}

RECURSIVE sum_lists(_)
\* sum(x, []): the lists of x joined in order
sum_lists(x) ==
    IF x = <<>> THEN <<>> ELSE x[1] \o sum_lists(Tail(x))

RECURSIVE sum_seq(_)
sum_seq(x) ==
    IF x = <<>> THEN 0 ELSE x[1] + sum_seq(Tail(x))

\* np.mean of a list of numbers
np_mean(x) == [num |-> sum_seq(x), den |-> Len(x)]

\* np.median of a list of numbers: the middle of the sorted list, or the mean
\* of the two middle elements
np_median(x) ==
    LET a == SortSeq(x, <)
        n == Len(a)
    IN IF n % 2 = 1 THEN [num |-> a[(n + 1) \div 2], den |-> 1]
       ELSE [num |-> a[n \div 2] + a[n \div 2 + 1], den |-> 2]

Zero == [num |-> 0, den |-> 1]
NoValidReturn == [loss |-> Zero, mean |-> Zero, median |-> Zero]

validate_return_per_batch(pre_training, accs, losses) ==
    IF pre_training
    THEN [loss |-> np_mean(losses), mean |-> Zero, median |-> Zero]
    ELSE LET means == [b \in 1..Len(accs) |-> sum_seq(accs[b]) \div Len(accs[b])]
         IN [loss |-> np_mean(losses), mean |-> np_mean(means),
             median |-> np_median(means)]

\* lines 260-264 of validate_one_epoch on the per-batch results
validate_return(pre_training, accs, losses) ==
    IF pre_training
    THEN [loss |-> np_mean(losses), mean |-> Zero, median |-> Zero]
    ELSE [loss   |-> np_mean(losses),
          mean   |-> np_mean(sum_lists(accs)),
          median |-> np_median(sum_lists(accs))]

ValidateFrame ==
    <<disk, Config, vleft, epochs, last_epoch, epoch, next_epoch, step, events,
      cnt, lr_scheduler, model_loaded, optim_loaded, optim_arg, res, intAt,
      run, first, clip_grad, clip_trace, ts>>

InitValidate ==
    /\ FitIdle
    /\ pc = "vs_idle"
    /\ clip_grad = NoClipGrad
    /\ clip_trace = NoClipTrace
    /\ ts = NoStep
    /\ \E pre_training \in BOOLEAN :
         vs = [pc |-> "none", pre_training |-> pre_training, accs |-> <<>>,
               losses |-> <<>>, ret |-> NoValidReturn]

\* validate_one_epoch is entered: self.model.eval()
ValidateCall ==
    /\ pc = "vs_idle"
    /\ model_mode' = "eval"
    /\ pc' = "vs_batches"
    /\ UNCHANGED <<ValidateFrame, vs>>

\* validate_one_step on the next batch of the loader: its accuracies, none in
\* pre-training mode, and its loss
ValidateOneStep(accs, loss) ==
    /\ pc = "vs_batches"
    /\ Len(vs.losses) < MaxValidBatches
    /\ vs' = [vs EXCEPT !.accs = Append(@, IF vs.pre_training THEN <<>> ELSE accs),
                        !.losses = Append(@, loss)]
    /\ UNCHANGED <<ValidateFrame, pc, model_mode>>

\* the loader is exhausted: the statistics are computed and returned
ValidateReturn ==
    /\ pc = "vs_batches"
    /\ Len(vs.losses) >= 1
    /\ vs' = [vs EXCEPT !.ret = validate_return(vs.pre_training, vs.accs, vs.losses)]
    /\ pc' = "vs_done"
    /\ UNCHANGED <<ValidateFrame, model_mode>>

NextValidate ==
    \/ ValidateCall
    \/ \E n \in ValidSizes : \E accs \in [1..n -> AccValues], loss \in ValidLosses :
         ValidateOneStep(accs, loss)
    \/ ValidateReturn

SpecValidate == InitValidate /\ [][NextValidate]_vars

\* ---------------------------------------------------------------------------
\* Claims about validate_one_epoch
\* ---------------------------------------------------------------------------

\* the examples of all validation batches: <<batch, position>>
Examples ==
    {p \in (1..Len(vs.accs)) \X (1..5) : p[2] <= Len(vs.accs[p[1]])}

AccOf(p) == vs.accs[p[1]][p[2]]

\* the number of examples with accuracy below x, and at most x
PoolBelow(x) == Cardinality({p \in Examples : AccOf(p) < x})
PoolAtMost(x) == Cardinality({p \in Examples : AccOf(p) <= x})

\* the order statistic of rank k (from 0) of the pooled accuracies
PoolStat(k) ==
    CHOOSE x \in {AccOf(p) : p \in Examples} : PoolBelow(x) <= k /\ k < PoolAtMost(x)

RECURSIVE SumAcc(_)
\* the sum of the accuracies of a set of examples
SumAcc(P) ==
    IF P = {} THEN 0
    ELSE LET p == CHOOSE e \in P : TRUE
         IN AccOf(p) + SumAcc(P \ {p})

PoolSum == SumAcc(Examples)

RECURSIVE SumLoss(_)
\* the sum of the losses of a set of batches
SumLoss(bs) ==
    IF bs = {} THEN 0
    ELSE LET b == CHOOSE e \in bs : TRUE
         IN vs.losses[b] + SumLoss(bs \ {b})

LossSum == SumLoss(1..Len(vs.losses))

\* C15: in supervised mode validate_one_epoch returns the mean and the median
\* of the accuracies of all examples of all batches taken together, and as
\* loss the mean of the per-batch losses; in pre-training mode it returns the
\* same loss and 0.0 for both accuracy statistics.
C15_PooledStatistics ==
    pc = "vs_done"
    => LET N == Cardinality(Examples)
           r == vs.ret
       IN /\ r.loss.num * Len(vs.losses) = LossSum * r.loss.den
          /\ ~vs.pre_training
               => /\ r.mean.num * N = PoolSum * r.mean.den
                  /\ r.median.num * 2
                       = (PoolStat((N - 1) \div 2) + PoolStat(N \div 2)) * r.median.den
          /\ vs.pre_training
               => /\ r.mean.num = 0
                  /\ r.median.num = 0

\* batches of 3 and 5 examples whose means are 100 and 20: the pooled mean is
\* 400 / 8 = 50, not 60, and the pooled median is (0 + 100) / 2
C15_Witness ==
    /\ pc = "vs_done"
    /\ ~vs.pre_training
    /\ vs.accs = << <<100, 100, 100>>, <<0, 0, 0, 0, 100>> >>
    /\ vs.losses = <<1, 3>>
    /\ vs.ret.mean = [num |-> 400, den |-> 8]
    /\ vs.ret.median = [num |-> 100, den |-> 2]
    /\ vs.ret.loss = [num |-> 4, den |-> 2]

\* ---------------------------------------------------------------------------
\* Claims about the epoch loop of fit
\* ---------------------------------------------------------------------------

\* chunks_per_epoch // batch_size
StepsInEpoch == chunks_per_epoch \div batch_size

\* the statements after train_one_epoch has returned in an iteration
AfterTraining == {"save_w", "save_o", "validate", "val_batch", "summary"}

\* C17: train_one_epoch executes exactly chunks_per_epoch // batch_size steps;
\* the scheduler is advanced once per step, after the step's optimizer update
\* and after its log entry has recorded the learning rate; after n epochs
\* trained in a run it has been advanced n * (chunks_per_epoch // batch_size)
\* times.
C17_SchedulerOncePerStep ==
    /\ pc \in AfterTraining => step = StepsInEpoch
    /\ pc \in StepPcs => step < StepsInEpoch
    /\ pc \in StepPcs \cup AfterTraining \cup {"loop"}
         => /\ cnt.log - lr_scheduler.steps = (IF pc = "sched" THEN 1 ELSE 0)
            /\ cnt.update - cnt.log = (IF pc = "log" THEN 1 ELSE 0)
            /\ cnt.optstep - cnt.update = (IF pc = "update" THEN 1 ELSE 0)
            /\ cnt.log > 0 => cnt.logged_lr = cnt.log - 1
    /\ pc \in StepPcs
         => lr_scheduler.steps = (epoch - 1 - last_epoch) * StepsInEpoch + step
    /\ pc \in AfterTraining
         => lr_scheduler.steps = (epoch - last_epoch) * StepsInEpoch
    /\ pc = "loop"
         => lr_scheduler.steps = (next_epoch - 1 - last_epoch) * StepsInEpoch

\* a resumed run has trained two epochs of 5 // 2 = 2 steps each and is back
\* at the loop head with the scheduler advanced 4 times
C17_Witness ==
    /\ pc = "loop"
    /\ run = 2
    /\ last_epoch = 1
    /\ next_epoch = 4
    /\ chunks_per_epoch = 5
    /\ batch_size = 2
    /\ lr_scheduler.steps = 4
    /\ cnt.log = 4
    /\ cnt.optstep = 4

\* C18: training and validation never interleave and each runs in the right
\* model mode: every statement of a training step runs with the model in
\* training mode, also in epochs that follow a validation pass, every
\* validation batch runs with the model in evaluation mode, and from the start
\* to the end of a validation pass no gradient is cleared or clipped, no
\* optimizer update is made and the scheduler is not advanced.
C18_PhasesApart ==
    [][/\ pc' \in StepPcs => model_mode' = "train"
       /\ pc' = "val_batch" => model_mode' = "eval"
       /\ pc = "val_batch"
            => /\ pc' \in {"val_batch", "summary", "returned"}
               /\ cnt' = cnt
               /\ lr_scheduler' = lr_scheduler
               /\ step' = step
       /\ pc' = "val_batch" => pc \in {"validate", "val_batch"}
       /\ (pc \in StepPcs /\ pc' \notin {"returned", "raised"})
            => pc' \in StepPcs \cup {"save_w"}]_vars

\* the second epoch of a run is in a training step, in training mode, after
\* the validation pass of the first epoch had put the model in evaluation mode
C18_Witness ==
    /\ pc = "clip"
    /\ run = 1
    /\ epoch = 2
    /\ last_epoch = 0
    /\ model_mode = "train"
    /\ cnt.clip = steps_per_epoch

\* C19: from an empty work directory, after any runs of fit and interruptions
\* at any point, every optimizer file optim_N on disk has the weights file
\* weights_N on disk, and N is a positive multiple of save_optim_every.
C19_OptimHasWeights ==
    \A f \in disk :
        f.kind = "optim"
        => \E N \in 1..MaxEpochs :
              /\ f.stem = IntToStr(N)
              /\ N % save_optim_every = 0
              /\ [kind |-> "weights", stem |-> IntToStr(N)] \in disk

\* a second run, after a first run that was interrupted, has saved the
\* optimizer of epoch 4 with save_optim_every = 2; epoch 3 has weights only
C19_Witness ==
    /\ run = 2
    /\ first.outcome = "interrupted"
    /\ save_optim_every = 2
    /\ pc = "validate"
    /\ epoch = 4
    /\ OptimOnDisk(4)
    /\ OptimOnDisk(2)
    /\ WeightsOnDisk(3)
    /\ ~OptimOnDisk(3)

====
